---- MODULE Spec2Model ----
(***************************************************************************)
(* State-machine model of the media catalog bot: the token table and its   *)
(* redemption (database.py get_video_by_token / save_token), the catalog   *)
(* upsert (save_video_to_db), the keyword extractor (extract_keywords),    *)
(* the ranked, cached search (get_videos_by_name), the statistics tables   *)
(* with their two background loops (track_search, update_stats_            *)
(* periodically, schedule_daily_reset) and the message handlers of main.py.*)
(*                                                                         *)
(* Text is a sequence of one-character strings.  Time is an integer clock  *)
(* that counts hours.                                                      *)
(***************************************************************************)
EXTENDS Integers, Sequences, FiniteSets, TLC

VARIABLES
    now,            \* the storage server's clock (NOW())
    videos,         \* table videos: sequence of rows, row i has id i
    video_tokens,   \* table video_tokens: sequence of rows, row i has id i
    pc,             \* per client: position inside get_video_by_token
    tok,            \* per client: the token argument of its latest call
    res,            \* per client: what its call returned
    redeemed,       \* per token row id: number of calls that returned its video
    cache,          \* the result cache: key -> entry
    stale,          \* keys whose entry was stored before the latest catalog write
    last,           \* observation of the most recent call
    searches,       \* table searches: sequence of search events
    top_searches,   \* table top_searches: set of rows, one per (search_date, search_term)
    bot_stats,      \* table bot_stats: sequence of daily rows, row i has id i
    tasks           \* the two background loops started by main()

vars == <<now, videos, video_tokens, pc, tok, res, redeemed, cache, stale, last,
          searches, top_searches, bot_stats, tasks>>

\* the statistics tables and the background loops
statvars == <<searches, top_searches, bot_stats, tasks>>

\* no search was tracked, no daily row written; both loops were just created and
\* the hourly loop has not yet bound its local names conn and cur
InitStats ==
    /\ searches = <<>>
    /\ top_searches = {}
    /\ bot_stats = <<>>
    /\ tasks = [hourly |-> "running", daily |-> "running", bound |-> FALSE]

(***************************************************************************)
(* Bounds of the model.                                                    *)
(***************************************************************************)
MaxTokenRows == 2    \* rows ever inserted into video_tokens
MaxTime == 2         \* last clock tick (hours) of the token service
MaxSearchTime == 1   \* last clock tick (hours) of the search service
NumFiles == 2        \* distinct file_id values uploaded
MaxPage == 2         \* largest page number requested
MaxLimit == 2        \* largest page size requested
MaxTextLen == 5      \* longest generated text given to extract_keywords

(***************************************************************************)
(* Program constants.                                                      *)
(***************************************************************************)
TokenLifeHours == 1  \* INTERVAL '1 hour'

Clients == {"c1", "c2"}       \* concurrent callers of get_video_by_token
TokenValues == {"t1", "t2"}   \* token strings presented or issued
Users == {"u1"}               \* user ids
Files == 1..NumFiles

(***************************************************************************)
(* Text helpers.                                                           *)
(***************************************************************************)
UpperChars == <<"A", "B", "C", "D", "E", "F", "G", "H", "I", "J", "K", "L", "M",
                "N", "O", "P", "Q", "R", "S", "T", "U", "V", "W", "X", "Y", "Z">>
LowerChars == <<"a", "b", "c", "d", "e", "f", "g", "h", "i", "j", "k", "l", "m",
                "n", "o", "p", "q", "r", "s", "t", "u", "v", "w", "x", "y", "z">>
Digits == {"0", "1", "2", "3", "4", "5", "6", "7", "8", "9"}

UpperSet == {UpperChars[i] : i \in 1..Len(UpperChars)}
LowerSet == {LowerChars[i] : i \in 1..Len(LowerChars)}
ToLower == [c \in UpperSet |-> LowerChars[CHOOSE i \in 1..Len(UpperChars) : UpperChars[i] = c]]

\* str.lower() / SQL LOWER() on one character
LowerChar(c) == IF c \in UpperSet THEN ToLower[c] ELSE c

\* str.lower() / SQL LOWER()
Lower(s) == [i \in 1..Len(s) |-> LowerChar(s[i])]

\* a slice that starts one element late
SliceFromNext(s, i, j) ==
    IF i + 1 > j + 1 \/ i + 1 > Len(s) THEN <<>>
    ELSE SubSeq(s, i + 1, IF j + 1 > Len(s) THEN Len(s) ELSE j + 1)

\* s[i..j] as Python's s[i-1:j]
Slice(s, i, j) == IF i > j \/ i > Len(s) THEN <<>>
                  ELSE SubSeq(s, i, IF j > Len(s) THEN Len(s) ELSE j)

\* literal prefix test
StartsWith(s, p) == Len(p) <= Len(s) /\ SubSeq(s, 1, Len(p)) = p

\* literal substring test (Python's "p in s")
Contains(s, p) ==
    \E i \in 1..(Len(s) + 1) :
        i + Len(p) - 1 <= Len(s) /\ SubSeq(s, i, i + Len(p) - 1) = p

\* membership in a sequence
InSeq(x, s) == \E i \in 1..Len(s) : s[i] = x

\* order-preserving removal of duplicates, first occurrence kept
RECURSIVE DedupeFrom(_, _, _)
DedupeFrom(s, i, acc) ==
    IF i > Len(s) THEN acc
    ELSE DedupeFrom(s, i + 1, IF InSeq(s[i], acc) THEN acc ELSE Append(acc, s[i]))

Dedupe(s) == DedupeFrom(s, 1, <<>>)

(***************************************************************************)
(* extract_keywords                                                        *)
(***************************************************************************)
video_attributes ==
    << <<"1", "0", "8", "0", "p">>, <<"7", "2", "0", "p">>, <<"4", "8", "0", "p">>,
       <<"2", "1", "6", "0", "p">>,
       <<"h", "d", "r", "i", "p">>, <<"w", "e", "b", "r", "i", "p">>,
       <<"b", "r", "r", "i", "p">>, <<"d", "v", "d", "r", "i", "p">>,
       <<"m", "a", "l", "a", "y", "d", "u", "b">>,
       <<"m", "a", "l", "a", "y", "s", "u", "b">> >>

\* the characters the regex class [.\s_-] matches
IsSeparator(c) == c \in {".", " ", "_", "-"}

\* the regex class \w
IsWordChar(c) == c \in Digits \/ c = "_" \/ c \in LowerSet \/ c \in UpperSet

\* the regex assertion \b between positions i and i+1 of t
WordBoundary(t, i) ==
    LET before == i >= 1 /\ i <= Len(t) /\ IsWordChar(t[i])
        after  == i + 1 >= 1 /\ i + 1 <= Len(t) /\ IsWordChar(t[i + 1])
    IN  before # after

\* does \b(19|20)\d{2}\b match at position i of t
YearAt(t, i) ==
    /\ i + 3 <= Len(t)
    /\ WordBoundary(t, i - 1)
    /\ SubSeq(t, i, i + 1) \in { <<"1", "9">>, <<"2", "0">> }
    /\ t[i + 2] \in Digits
    /\ t[i + 3] \in Digits
    /\ WordBoundary(t, i + 3)

\* re.findall(r'\b(19|20)\d{2}\b', text): with one group in the pattern,
\* findall returns the group of every non-overlapping match
RECURSIVE FindYears(_, _, _)
FindYears(t, i, acc) ==
    IF i > Len(t) THEN acc
    ELSE IF YearAt(t, i) THEN FindYears(t, i + 4, Append(acc, SubSeq(t, i, i + 1)))
    ELSE FindYears(t, i + 1, acc)

\* re.split(r'[.\s_-]+', text)
RECURSIVE SplitFrom(_, _, _, _, _)
SplitFrom(t, i, cur, acc, inSep) ==
    IF i > Len(t) THEN Append(acc, cur)
    ELSE IF IsSeparator(t[i])
         THEN IF inSep THEN SplitFrom(t, i + 1, cur, acc, TRUE)
              ELSE SplitFrom(t, i + 1, <<>>, Append(acc, cur), TRUE)
         ELSE SplitFrom(t, i + 1, Append(cur, t[i]), acc, FALSE)

SplitWords(t) == SplitFrom(t, 1, <<>>, <<>>, FALSE)

\* a test that recognises no attribute in any pair of words
HasNoAttribute(compound) == FALSE

\* any(attr.lower() in compound.lower() for attr in video_attributes)
HasAttribute(compound) ==
    \E k \in 1..Len(video_attributes) : Contains(Lower(compound), Lower(video_attributes[k]))

\* the while loop over words
RECURSIVE WordLoop(_, _, _)
WordLoop(words, i, keywords) ==
    IF i > Len(words) THEN keywords
    ELSE LET word == words[i]
             k1   == IF word # <<>> THEN Append(keywords, word) ELSE keywords
         IN  IF i < Len(words)
             THEN LET compound == word \o words[i + 1]
                      combined == word \o <<" ">> \o words[i + 1]
                  IN  IF HasAttribute(compound)
                      THEN WordLoop(words, i + 2, Append(k1, combined))
                      ELSE WordLoop(words, i + 1, k1)
             ELSE WordLoop(words, i + 1, k1)

\* an extractor that appends the full text only when it is not empty
KeywordsUnlessEmpty(text) ==
    LET t     == Lower(text)
        years == FindYears(t, 1, <<>>)
        words == SplitWords(t)
    IN  Dedupe(WordLoop(words, 1, <<>>) \o years \o (IF t = <<>> THEN <<>> ELSE <<t>>))

extract_keywords(text) ==
    LET t     == Lower(text)
        years == FindYears(t, 1, <<>>)
        words == SplitWords(t)
    IN  Dedupe(WordLoop(words, 1, <<>>) \o years \o <<t>>)

(***************************************************************************)
(* The catalog: table videos and save_video_to_db                          *)
(***************************************************************************)
\* a caption is optional: None, or a text
NoCaption == [isNone |-> TRUE, text |-> <<>>]
CaptionOf(s) == [isNone |-> FALSE, text |-> s]

\* keywords of caption, then of the name, duplicates kept
KeywordsWithDuplicates(video_name, caption) ==
    (IF ~caption.isNone /\ caption.text # <<>>
     THEN extract_keywords(caption.text) ELSE <<>>) \o extract_keywords(video_name)

\* keywords of caption, then of the name, duplicates removed
KeywordsFor(video_name, caption) ==
    LET fromCaption == IF ~caption.isNone /\ caption.text # <<>>
                       THEN extract_keywords(caption.text) ELSE <<>>
    IN  Dedupe(fromCaption \o extract_keywords(video_name))

\* SELECT id FROM videos WHERE file_id = %s ... fetchone()
FileExists(rows, file_id) == \E i \in 1..Len(rows) : rows[i].file_id = file_id

\* the UPDATE branch: every row of that file_id is overwritten, id kept
UpdateVideo(rows, video_name, caption, file_id, access_hash, upload_date) ==
    [i \in 1..Len(rows) |->
        IF rows[i].file_id = file_id
        THEN [rows[i] EXCEPT !.video_name = video_name,
                             !.caption = caption,
                             !.keywords = KeywordsFor(video_name, caption),
                             !.access_hash = access_hash,
                             !.upload_date = upload_date]
        ELSE rows[i]]

\* the INSERT branch: a new row with the next serial id.  The statement names
\* no is_document column: where the table has one (init_db.py) it takes its
\* default, FALSE
InsertVideo(rows, video_name, caption, file_id, access_hash, upload_date) ==
    Append(rows, [id |-> Len(rows) + 1,
                  video_name |-> video_name,
                  caption |-> caption,
                  keywords |-> KeywordsFor(video_name, caption),
                  file_id |-> file_id,
                  access_hash |-> access_hash,
                  upload_date |-> upload_date,
                  is_document |-> FALSE])

\* a save that takes the INSERT branch whether or not the file_id exists
InsertAlways(rows, video_name, caption, file_id, access_hash, upload_date) ==
    InsertVideo(rows, video_name, caption, file_id, access_hash, upload_date)

\* the table after save_video_to_db ran to its commit
SavedVideos(rows, video_name, caption, file_id, access_hash, upload_date) ==
    IF FileExists(rows, file_id)
    THEN UpdateVideo(rows, video_name, caption, file_id, access_hash, upload_date)
    ELSE InsertVideo(rows, video_name, caption, file_id, access_hash, upload_date)

(***************************************************************************)
(* The token table: save_token and get_video_by_token                      *)
(***************************************************************************)
\* NOW() + INTERVAL '1 hour'
ExpiryFor(t) == t + TokenLifeHours

\* a save_token that overwrites the row of a token value already stored
\* (INSERT ... ON CONFLICT (token) DO UPDATE) instead of adding a row
UpsertToken(rows, token, video_id, user_id, at) ==
    IF \E i \in 1..Len(rows) : rows[i].token = token
    THEN [i \in 1..Len(rows) |->
            IF rows[i].token = token
            THEN [rows[i] EXCEPT !.video_id = video_id, !.user_id = user_id,
                                 !.created_at = at, !.expires_at = at + TokenLifeHours,
                                 !.used = FALSE]
            ELSE rows[i]]
    ELSE Append(rows, [id |-> Len(rows) + 1, token |-> token, video_id |-> video_id,
                       user_id |-> user_id, created_at |-> at,
                       expires_at |-> at + TokenLifeHours, used |-> FALSE])

\* INSERT INTO video_tokens (token, video_id, user_id, expires_at): id is the
\* next serial, created_at defaults to CURRENT_TIMESTAMP, used to FALSE
InsertToken(rows, token, video_id, user_id, at) ==
    Append(rows, [id |-> Len(rows) + 1,
                  token |-> token,
                  video_id |-> video_id,
                  user_id |-> user_id,
                  created_at |-> at,
                  expires_at |-> ExpiryFor(at),
                  used |-> FALSE])

\* video_id REFERENCES videos(id)
VideoIdExists(vs, video_id) == \E i \in 1..Len(vs) : vs[i].id = video_id

\* a subquery that forgets the expiry predicate
TokenSubqueryNoExpiry(rows, token, at) ==
    {i \in 1..Len(rows) : rows[i].token = token /\ ~rows[i].used}

\* SELECT video_id FROM video_tokens
\* WHERE token = %s AND expires_at > NOW() AND used = FALSE: the matching row ids
TokenSubquery(rows, token, at) ==
    {i \in 1..Len(rows) : rows[i].token = token /\ rows[i].expires_at > at /\ ~rows[i].used}

\* an UPDATE without its WHERE clause: every row is marked
MarkEveryRowUsed(rows, token) ==
    [i \in 1..Len(rows) |-> [rows[i] EXCEPT !.used = TRUE]]

\* UPDATE video_tokens SET used = TRUE WHERE token = %s
MarkUsed(rows, token) ==
    [i \in 1..Len(rows) |->
        IF rows[i].token = token THEN [rows[i] EXCEPT !.used = TRUE] ELSE rows[i]]

\* what a call of get_video_by_token holds after its SELECT: the outcome
\* (kind, and the selected row and its video), and for the record why no row
\* qualified: no row of that token, only used ones, or an unused expired one
NotFound(why) == [kind |-> "none", row |-> 0, video |-> 0, why |-> why]
Raised == [kind |-> "raised", row |-> 0, video |-> 0, why |-> "ambiguous"]
Found(row, video_id) == [kind |-> "video", row |-> row, video |-> video_id, why |-> "valid"]

WhyNoRow(rows, token) ==
    IF \A i \in 1..Len(rows) : rows[i].token # token THEN "absent"
    ELSE IF \E i \in 1..Len(rows) : rows[i].token = token /\ ~rows[i].used THEN "expired"
    ELSE "used"

\* an outer SELECT that joins the videos on the id of the token row instead
\* of its video_id
SelectVideoByRowId(vs, rows, token, at) ==
    LET hit == TokenSubquery(rows, token, at)
    IN  IF Cardinality(hit) > 1 THEN Raised
        ELSE IF hit = {} THEN NotFound(WhyNoRow(rows, token))
        ELSE LET r == CHOOSE i \in hit : TRUE
             IN  IF VideoIdExists(vs, rows[r].id)
                 THEN Found(r, rows[r].id)
                 ELSE NotFound("absent")

\* a SELECT that also asks for the row to belong to the first user
SelectVideoOfOwner(vs, rows, token, at) ==
    LET hit == {i \in TokenSubquery(rows, token, at) : rows[i].user_id = "u1"}
    IN  IF Cardinality(hit) > 1 THEN Raised
        ELSE IF hit = {} THEN NotFound(WhyNoRow(rows, token))
        ELSE LET r == CHOOSE i \in hit : TRUE
             IN  IF VideoIdExists(vs, rows[r].video_id)
                 THEN Found(r, rows[r].video_id)
                 ELSE NotFound("absent")

\* the outer SELECT ... FROM videos v WHERE v.id = (subquery): a scalar
\* subquery with more than one row is an error, with none it is NULL
SelectVideoByToken(vs, rows, token, at) ==
    LET hit == TokenSubquery(rows, token, at)
    IN  IF Cardinality(hit) > 1 THEN Raised
        ELSE IF hit = {} THEN NotFound(WhyNoRow(rows, token))
        ELSE LET r == CHOOSE i \in hit : TRUE
             IN  IF VideoIdExists(vs, rows[r].video_id)
                 THEN Found(r, rows[r].video_id)
                 ELSE NotFound("absent")

(***************************************************************************)
(* Ranked search: the query of get_videos_by_name                          *)
(***************************************************************************)
\* str.strip()
RECURSIVE StripLeft(_)
StripLeft(s) == IF s # <<>> /\ Head(s) = " " THEN StripLeft(Tail(s)) ELSE s

RECURSIVE StripRight(_)
StripRight(s) ==
    IF s # <<>> /\ s[Len(s)] = " " THEN StripRight(SubSeq(s, 1, Len(s) - 1)) ELSE s

Strip(s) == StripRight(StripLeft(s))

\* a normalization that forgets to strip
LowerOnly(search_term) == Lower(search_term)

\* search_term.strip().lower()
NormalizedTerm(search_term) == Lower(Strip(search_term))

\* str.split(): the maximal runs of non-whitespace
RECURSIVE SplitSpaceFrom(_, _, _, _)
SplitSpaceFrom(t, i, cur, acc) ==
    IF i > Len(t) THEN (IF cur # <<>> THEN Append(acc, cur) ELSE acc)
    ELSE IF t[i] = " "
         THEN SplitSpaceFrom(t, i + 1, <<>>, IF cur # <<>> THEN Append(acc, cur) ELSE acc)
         ELSE SplitSpaceFrom(t, i + 1, Append(cur, t[i]), acc)

\* [w.strip() for w in normalized_term.split() if w.strip()]
SearchWords(normalized_term) == SplitSpaceFrom(normalized_term, 1, <<>>, <<>>)

\* SQL: s LIKE pat, where % in pat matches any run of characters and _ any
\* one character
RECURSIVE Like(_, _)
Like(s, pat) ==
    IF pat = <<>> THEN s = <<>>
    ELSE IF Head(pat) = "%"
         THEN Like(s, Tail(pat)) \/ (s # <<>> /\ Like(Tail(s), pat))
    ELSE IF Head(pat) = "_"
         THEN s # <<>> /\ Like(Tail(s), Tail(pat))
    ELSE IF Head(pat) = "\\"
         THEN /\ Len(pat) > 1
              /\ s # <<>> /\ Head(s) = pat[2] /\ Like(Tail(s), Tail(Tail(pat)))
    ELSE s # <<>> /\ Head(s) = Head(pat) /\ Like(Tail(s), Tail(pat))

\* f"{normalized_term}%"
StartsPattern(term) == term \o <<"%">>

\* f"%{normalized_term}%" and concat('%', word, '%')
ContainsPattern(term) == <<"%">> \o term \o <<"%">>

\* SELECT bool_and(LOWER(video_name) LIKE concat('%', word, '%'))
\* FROM unnest(words): NULL, so not true, over no words
AllWordsMatch(row, words) ==
    /\ words # <<>>
    /\ \A k \in 1..Len(words) : Like(Lower(row.video_name), ContainsPattern(words[k]))

\* %s = ANY(keywords)
KeywordExact(row, term) == InSeq(term, row.keywords)

\* EXISTS (SELECT 1 FROM unnest(keywords) k WHERE k LIKE %s)
KeywordPartial(row, term) ==
    \E k \in 1..Len(row.keywords) : Like(row.keywords[k], ContainsPattern(term))

\* the CASE expression "rank"
SqlRank(row, term) ==
    IF Lower(row.video_name) = term THEN 100
    ELSE IF Like(Lower(row.video_name), StartsPattern(term)) THEN 90
    ELSE IF AllWordsMatch(row, SearchWords(term)) THEN 85
    ELSE IF Like(Lower(row.video_name), ContainsPattern(term)) THEN 80
    ELSE IF KeywordExact(row, term) THEN 70
    ELSE IF KeywordPartial(row, term) THEN 60
    ELSE 0

\* the WHERE clause of the inner SELECT
SqlCandidate(row, term) ==
    \/ Lower(row.video_name) = term
    \/ Like(Lower(row.video_name), StartsPattern(term))
    \/ Like(Lower(row.video_name), ContainsPattern(term))
    \/ KeywordExact(row, term)
    \/ KeywordPartial(row, term)
    \/ AllWordsMatch(row, SearchWords(term))

\* the ids of RankedVideos WHERE rank > 0
MatchIds(rows, term) ==
    {i \in 1..Len(rows) : SqlCandidate(rows[i], term) /\ SqlRank(rows[i], term) > 0}

\* ORDER BY rank DESC, upload_date DESC: may a row of rank ra and date da
\* come before a row of rank rb and date db
OrderedBefore(ra, da, rb, db) == ra > rb \/ (ra = rb /\ da >= db)

\* every order of the matching rows the ORDER BY allows (rows equal in rank
\* and upload_date come in any order)
RankedOrders(rows, term) ==
    LET ids  == MatchIds(rows, term)
        n    == Cardinality(ids)
        rank == [i \in ids |-> SqlRank(rows[i], term)]
    IN  {f \in [1..n -> ids] :
            /\ \A i, j \in 1..n : i # j => f[i] # f[j]
            /\ \A i \in 1..n, j \in 1..n :
                   i < j => OrderedBefore(rank[f[i]], rows[f[i]].upload_date,
                                          rank[f[j]], rows[f[j]].upload_date)}

\* the tuple (id, video_name, caption, file_id, upload_date) built from a row
ResultTuple(row) ==
    [id |-> row.id, video_name |-> row.video_name, caption |-> row.caption,
     file_id |-> row.file_id, upload_date |-> row.upload_date]

\* LIMIT limit OFFSET offset over one order of the ranked rows
Window(rows, order, limit, offset) ==
    LET ids == Slice(order, offset + 1, offset + limit)
    IN  [k \in 1..Len(ids) |-> ResultTuple(rows[ids[k]])]

(***************************************************************************)
(* The result cache (redis_cache.RedisCache)                               *)
(***************************************************************************)
CacheTTL == 1   \* hours an entry lives

\* the key of a term: the normalized term
CacheKey(term) == NormalizedTerm(term)

\* get_cached_search(term): the entry of the key while it has not expired
CacheHit(c, term, at) ==
    CacheKey(term) \in DOMAIN c /\ at < c[CacheKey(term)].expires

\* the store drops an entry when its time to live has run out
Unexpired(c, at) == [k \in {x \in DOMAIN c : at < c[x].expires} |-> c[k]]

\* cache_search_results(term, videos, total_count); stored_as records the
\* term string the store was called with
CachePut(c, term, items, total, at) ==
    [k \in DOMAIN c \cup {CacheKey(term)} |->
        IF k = CacheKey(term)
        THEN [total |-> total, items |-> items, expires |-> at + CacheTTL,
              stored_as |-> term]
        ELSE c[k]]

(***************************************************************************)
(* Sample texts                                                            *)
(***************************************************************************)
txt_a_b == <<"a", " ", "b">>
txt_b_a == <<"b", " ", "a">>
txt_A == <<"A">>
txt_cd == <<"c", "d">>
txt_q_A == <<" ", "A", " ">>

\* a catalog of two uploads, as two runs of save_video_to_db leave it
SeedVideos ==
    SavedVideos(SavedVideos(<<>>, txt_a_b, NoCaption, 1, 1, 0),
                txt_b_a, CaptionOf(txt_cd), 2, 2, 0)

(***************************************************************************)
(* Token service: the steps of save_token and get_video_by_token           *)
(***************************************************************************)
\* no call was made yet: no token argument is held
NoToken == "-"

\* nothing observed
NoOp == [op |-> "none"]

InitToken ==
    /\ now = 0
    /\ videos = SeedVideos
    /\ video_tokens = <<>>
    /\ pc = [p \in Clients |-> "idle"]
    /\ tok = [p \in Clients |-> NoToken]
    /\ res = [p \in Clients |-> NotFound("absent")]
    /\ redeemed = <<>>
    /\ cache = <<>>
    /\ stale = {}
    /\ last = NoOp
    /\ InitStats

\* the clock advances
Tick ==
    /\ now < MaxTime
    /\ now' = now + 1
    /\ last' = NoOp
    /\ UNCHANGED <<videos, video_tokens, pc, tok, res, redeemed, cache, stale>>
    /\ UNCHANGED statvars

\* save_token(video_id, user_id, token): one INSERT and its commit; a
\* video_id that is no videos.id violates the foreign key and the call raises
SaveToken(video_id, user_id, token) ==
    /\ Len(video_tokens) < MaxTokenRows
    /\ IF VideoIdExists(videos, video_id)
       THEN /\ video_tokens' = InsertToken(video_tokens, token, video_id, user_id, now)
            /\ redeemed' = Append(redeemed, 0)
       ELSE UNCHANGED <<video_tokens, redeemed>>
    /\ UNCHANGED <<now, videos, pc, tok, res, cache, stale, last>>
    /\ UNCHANGED statvars

\* get_video_by_token(token), first statement: the SELECT.  Without a row the
\* call returns None; with an error it raises; with a row it goes on to the UPDATE
RedeemSelect(p, token) ==
    /\ pc[p] \in {"idle", "done"}
    /\ LET r == SelectVideoByToken(videos, video_tokens, token, now)
       IN  /\ res' = [res EXCEPT ![p] = r]
           /\ pc' = [pc EXCEPT ![p] = IF r.kind = "video" THEN "selected" ELSE "done"]
    /\ tok' = [tok EXCEPT ![p] = token]
    /\ UNCHANGED <<now, videos, video_tokens, redeemed, cache, stale, last>>
    /\ UNCHANGED statvars

\* get_video_by_token, second statement: the UPDATE, its commit, and the
\* return of the selected video
RedeemMark(p) ==
    /\ pc[p] = "selected"
    /\ video_tokens' = MarkUsed(video_tokens, tok[p])
    /\ redeemed' = [redeemed EXCEPT ![res[p].row] = @ + 1]
    /\ pc' = [pc EXCEPT ![p] = "done"]
    /\ UNCHANGED <<now, videos, tok, res, cache, stale, last>>
    /\ UNCHANGED statvars

NextToken ==
    \/ Tick
    \/ \E v \in 1..(Len(videos) + 1), u \in Users, t \in TokenValues : SaveToken(v, u, t)
    \/ \E p \in Clients, t \in TokenValues : RedeemSelect(p, t)
    \/ \E p \in Clients : RedeemMark(p)

SpecToken == InitToken /\ [][NextToken]_vars

(***************************************************************************)
(* Properties of the token service                                         *)
(***************************************************************************)
\* a token row that a redemption may still select
Redeemable(row, at) == ~row.used /\ at < row.expires_at

\* the step is a call of get_video_by_token by client p reaching its SELECT
CallStep(p) ==
    /\ pc[p] \in {"idle", "done"}
    /\ <<pc'[p], tok'[p], res'[p]>> # <<pc[p], tok[p], res[p]>>

\* C1: of two concurrent get_video_by_token calls on the same valid token,
\* exactly one returns the media item: no two clients ever both hold the
\* video of the same token row as the result of their calls.
C1_NeverBothSucceed ==
    \A p, q \in Clients :
        (p # q /\ pc[p] = "done" /\ pc[q] = "done"
              /\ res[p].kind = "video" /\ res[q].kind = "video")
        => res[p].row # res[q].row

\* C2: over any sequence of operations a token issued by save_token has at
\* most one successful redemption: no token row is ever returned to callers
\* more than once.
C2_AtMostOneRedemption ==
    \A i \in 1..Len(redeemed) : redeemed[i] <= 1

\* C3: every token row is stored with expires_at = created_at + 1 hour and
\* used = FALSE; a call of get_video_by_token made when no row of its token
\* has now < expires_at returns not-found and changes no token row, and a
\* row only becomes used by the UPDATE of a call that selected a row.
C3_ExpiryEnforced ==
    [][ /\ \A i \in 1..Len(video_tokens') :
               i > Len(video_tokens) =>
                   /\ video_tokens'[i].created_at = now
                   /\ video_tokens'[i].expires_at =
                          video_tokens'[i].created_at + TokenLifeHours
                   /\ ~video_tokens'[i].used
        /\ \A p \in Clients :
               (/\ CallStep(p)
                /\ \A i \in 1..Len(video_tokens) :
                       video_tokens[i].token = tok'[p] => ~(now < video_tokens[i].expires_at))
               => /\ res'[p].kind = "none"
                  /\ pc'[p] = "done"
                  /\ video_tokens' = video_tokens
        /\ \A i \in 1..Len(video_tokens) :
               (~video_tokens[i].used /\ video_tokens'[i].used)
               => \E p \in Clients :
                      /\ pc[p] = "selected" /\ pc'[p] = "done"
                      /\ tok[p] = video_tokens[i].token
      ]_vars

\* C3 witness: a call for a token whose only row was never used and has
\* expired returned not-found, and the row is still unused.
C3_Witness ==
    \E p \in Clients, i \in 1..Len(video_tokens) :
        /\ pc[p] = "done" /\ res[p].kind = "none" /\ res[p].why = "expired"
        /\ tok[p] = video_tokens[i].token
        /\ ~video_tokens[i].used /\ now >= video_tokens[i].expires_at
        /\ redeemed[i] = 0

\* C4: Used and Expired are terminal.  No step deletes a token row, changes
\* its expires_at or turns used from TRUE to FALSE; a row that is used or
\* expired is not redeemable after the step either, and a call never
\* selects such a row.
C4_TerminalStates ==
    [][ /\ Len(video_tokens') >= Len(video_tokens)
        /\ \A i \in 1..Len(video_tokens) :
               /\ video_tokens'[i].id = video_tokens[i].id
               /\ video_tokens'[i].token = video_tokens[i].token
               /\ video_tokens'[i].expires_at = video_tokens[i].expires_at
               /\ video_tokens[i].used => video_tokens'[i].used
               /\ ~Redeemable(video_tokens[i], now) => ~Redeemable(video_tokens'[i], now')
        /\ \A p \in Clients :
               (CallStep(p) /\ res'[p].kind = "video")
               => Redeemable(video_tokens[res'[p].row], now)
      ]_vars

\* C4 witness: one row is used after its single redemption, another expired
\* unused, a token was issued after both became terminal, and calls made
\* for the used and for the expired token found no row.
C4_Witness ==
    \E i, j, k \in 1..Len(video_tokens), p, q \in Clients :
        /\ video_tokens[i].used /\ redeemed[i] = 1
        /\ ~video_tokens[j].used /\ now >= video_tokens[j].expires_at
        /\ video_tokens[k].created_at >= video_tokens[j].expires_at
        /\ video_tokens[i].token # video_tokens[j].token
        /\ res[p].kind = "none" /\ res[p].why = "used" /\ tok[p] = video_tokens[i].token
        /\ res[q].kind = "none" /\ res[q].why = "expired" /\ tok[q] = video_tokens[j].token

\* C11: a successful get_video_by_token(t) returns the item whose id is the
\* video_id stored with t: the result of every call that found a video names
\* a row of the presented token value, the returned id is that row's
\* video_id, and it is the id of a catalog item.  With a token value issued
\* more than once the row is the one that was valid at the SELECT.
C11_ReturnsBoundVideo ==
    \A p \in Clients :
        res[p].kind = "video"
        => /\ res[p].row \in 1..Len(video_tokens)
           /\ video_tokens[res[p].row].token = tok[p]
           /\ res[p].video = video_tokens[res[p].row].video_id
           /\ VideoIdExists(videos, res[p].video)

\* C11 witness: a token value was issued for two different videos, and a
\* completed call returned the video of the later issuance.
C11_Witness ==
    \E p \in Clients, i, j \in 1..Len(video_tokens) :
        /\ i < j
        /\ video_tokens[i].token = video_tokens[j].token
        /\ video_tokens[i].video_id # video_tokens[j].video_id
        /\ pc[p] = "done" /\ res[p].kind = "video" /\ res[p].row = j
        /\ res[p].video = video_tokens[j].video_id
        /\ j # video_tokens[j].video_id

\* C12: get_video_by_token gives the same not-found outcome for a token that
\* never existed, expired, or was used, and for a redemption that lost a
\* race: a call whose SELECT meets no unused unexpired row of its token
\* returns not-found, and so does a call that reaches its UPDATE after
\* another call has marked the selected row used.
C12_UniformNotFound ==
    [][ \A p \in Clients :
            /\ (/\ CallStep(p)
                /\ \A i \in 1..Len(video_tokens) :
                       video_tokens[i].token = tok'[p]
                       => ~Redeemable(video_tokens[i], now))
               => (res'[p].kind = "none" /\ pc'[p] = "done")
            /\ (/\ pc[p] = "selected" /\ pc'[p] = "done"
                /\ video_tokens[res[p].row].used)
               => res'[p].kind = "none"
      ]_vars

\* the token table with every row issued to user u instead
IssuedTo(rows, u) == [i \in 1..Len(rows) |-> [rows[i] EXCEPT !.user_id = u]]

\* the users a token row could have been issued to
AnyUsers == Users \cup {"u2"}

C39_RedemptionFrame ==
    [][ \A p \in Clients :
            /\ CallStep(p) => (video_tokens' = video_tokens /\ videos' = videos)
            /\ (pc[p] = "selected" /\ pc'[p] = "done")
               => /\ videos' = videos
                  /\ Len(video_tokens') = Len(video_tokens)
                  /\ \A i \in 1..Len(video_tokens) :
                         \/ video_tokens'[i] = video_tokens[i]
                         \/ /\ video_tokens[i].token = tok[p]
                            /\ video_tokens'[i] = [video_tokens[i] EXCEPT !.used = TRUE]
      ]_vars

\* C39 witness: one call returned a video and its row is used, another call
\* found no row, and a row of another token value is still unused
C39_Witness ==
    \E p, q \in Clients, i, j \in 1..Len(video_tokens) :
        /\ pc[p] = "done" /\ res[p].kind = "video" /\ res[p].row = i
        /\ video_tokens[i].used
        /\ pc[q] = "done" /\ res[q].kind = "none"
        /\ video_tokens[j].token # video_tokens[i].token
        /\ ~video_tokens[j].used

\* C13: issuing a token whose value is already stored fails and leaves the
\* stored row unchanged: no two token rows share a token value.
C13_TokenValuesUnique ==
    \A i, j \in 1..Len(video_tokens) :
        i # j => video_tokens[i].token # video_tokens[j].token

(***************************************************************************)
(* Keyword service: extract_keywords applied to a text                     *)
(***************************************************************************)
\* "Movie.Name.1080p.2020"
txt_movie == <<"M", "o", "v", "i", "e", ".", "N", "a", "m", "e", ".",
               "1", "0", "8", "0", "p", ".", "2", "0", "2", "0">>

\* the characters of the generated texts: digits and a letter that spell
\* years and attributes, a separator, and a bracket
KwAlphabet == {"7", "2", "0", "p", ".", "("}

\* the texts given to extract_keywords
Texts == UNION {[1..n -> KwAlphabet] : n \in 0..MaxTextLen} \cup {txt_movie}

InitKeywords ==
    /\ now = 0
    /\ videos = <<>>
    /\ video_tokens = <<>>
    /\ pc = [p \in Clients |-> "idle"]
    /\ tok = [p \in Clients |-> NoToken]
    /\ res = [p \in Clients |-> NotFound("absent")]
    /\ redeemed = <<>>
    /\ cache = <<>>
    /\ stale = {}
    /\ last \in {[op |-> "text", text |-> t, keywords |-> <<>>] : t \in Texts}
    /\ InitStats

\* keywords = extract_keywords(text)
ExtractKeywords ==
    /\ last.op = "text"
    /\ last' = [op |-> "keywords", text |-> last.text,
                keywords |-> extract_keywords(last.text)]
    /\ UNCHANGED <<now, videos, video_tokens, pc, tok, res, redeemed, cache, stale>>
    /\ UNCHANGED statvars

NextKeywords == ExtractKeywords

SpecKeywords == InitKeywords /\ [][NextKeywords]_vars

(***************************************************************************)
(* Properties of the keyword service                                       *)
(***************************************************************************)
\* extract_keywords has returned
Extracted == last.op = "keywords"

\* C15: for every text, extract_keywords(text) is the same list on every
\* call, holds no token twice, and ends with the full lowercased text.
C15_KeywordsEndWithText ==
    Extracted
    => /\ last.keywords = extract_keywords(last.text)
       /\ \A i, j \in 1..Len(last.keywords) :
              i # j => last.keywords[i] # last.keywords[j]
       /\ last.keywords # <<>>
       /\ last.keywords[Len(last.keywords)] = Lower(last.text)

\* C16: every non-empty word of the lowercased text split on runs of
\* whitespace, dot, underscore and hyphen is a keyword on its own, the words
\* of a pair emitted as a compound included.
C16_EveryWordEmitted ==
    Extracted
    => LET words == SplitWords(Lower(last.text))
       IN  \A k \in 1..Len(words) :
               words[k] # <<>> => InSeq(words[k], last.keywords)

\* C17: every 4-digit year 1900-2099 standing between word boundaries in the
\* text is among the keywords as that 4-digit year.
C17_YearsAreKeywords ==
    Extracted
    => LET t == Lower(last.text)
       IN  \A i \in 1..Len(t) :
               YearAt(t, i) => InSeq(SubSeq(t, i, i + 3), last.keywords)

\* C18: extract_keywords("Movie.Name.1080p.2020") includes "2020", a compound
\* pairing "1080p" with a neighbouring word, and "movie" and "name".
C18_MovieExample ==
    (Extracted /\ last.text = txt_movie)
    => /\ InSeq(<<"2", "0", "2", "0">>, last.keywords)
       /\ \/ InSeq(<<"n", "a", "m", "e", " ", "1", "0", "8", "0", "p">>, last.keywords)
          \/ InSeq(<<"1", "0", "8", "0", "p", " ", "2", "0", "2", "0">>, last.keywords)
       /\ InSeq(<<"m", "o", "v", "i", "e">>, last.keywords)
       /\ InSeq(<<"n", "a", "m", "e">>, last.keywords)

\* C32: extract_keywords on the empty text returns the list whose single
\* element is the empty text
C32_EmptyText ==
    (Extracted /\ last.text = <<>>) => last.keywords = << <<>> >>

\* extract_keywords was called on the empty text and returned one keyword
C32_Witness ==
    Extracted /\ last.text = <<>> /\ Len(last.keywords) = 1

\* C18 witness: the call on "Movie.Name.1080p.2020" returned movie, name,
\* "name 1080p", 2020, 20 and the lowercased text.
C18_Witness ==
    /\ Extracted
    /\ last.text = txt_movie
    /\ last.keywords = << <<"m", "o", "v", "i", "e">>, <<"n", "a", "m", "e">>,
                          <<"n", "a", "m", "e", " ", "1", "0", "8", "0", "p">>,
                          <<"2", "0", "2", "0">>, <<"2", "0">>, Lower(txt_movie) >>

(***************************************************************************)
(* Search service: save_video_to_db and get_videos_by_name                 *)
(***************************************************************************)
\* the uploads offered: (video_name, caption)
Uploads == { <<txt_a_b, NoCaption>>, <<txt_A, CaptionOf(txt_cd)>> }
Queries == {txt_q_A, <<"_">>}
Pages == 1..MaxPage
Limits == 1..MaxLimit

\* where a call of get_videos_by_name can meet a failure of its collaborators
Failures == {"none", "connect", "query", "cache_put"}

InitSearch ==
    /\ now = 0
    /\ videos = <<>>
    /\ video_tokens = <<>>
    /\ pc = [p \in Clients |-> "idle"]
    /\ tok = [p \in Clients |-> NoToken]
    /\ res = [p \in Clients |-> NotFound("absent")]
    /\ redeemed = <<>>
    /\ cache = <<>>
    /\ stale = {}
    /\ last = NoOp
    /\ InitStats

\* the clock advances
TickSearch ==
    /\ now < MaxSearchTime
    /\ now' = now + 1
    /\ cache' = Unexpired(cache, now + 1)
    /\ stale' = stale \cap DOMAIN cache'
    /\ last' = NoOp
    /\ UNCHANGED <<videos, video_tokens, pc, tok, res, redeemed>>
    /\ UNCHANGED statvars

\* save_video_to_db(video_name, caption, file_id, access_hash, upload_date),
\* called by the upload handlers with the current time as upload_date
SaveVideo(video_name, caption, file_id) ==
    /\ videos' = SavedVideos(videos, video_name, caption, file_id, file_id, now)
    /\ stale' = DOMAIN cache
    /\ last' = NoOp
    /\ UNCHANGED <<now, video_tokens, pc, tok, res, redeemed, cache>>
    /\ UNCHANGED statvars

\* what a call of get_videos_by_name is observed to do
Returned(term, page, limit, path, fail, total, items, wasStale) ==
    [op |-> "search", term |-> term, page |-> page, limit |-> limit, path |-> path,
     failed |-> (fail # "none"), outcome |-> "returned", total |-> total,
     items |-> items, stale |-> wasStale]

RaisedSearch(term, page, limit, fail) ==
    [op |-> "search", term |-> term, page |-> page, limit |-> limit, path |-> "db",
     failed |-> (fail # "none"), outcome |-> "raised", total |-> 0, items |-> <<>>,
     stale |-> FALSE]

\* a cache hit that ranks the catalog again instead of slicing the entry
SearchFromCacheRequery(term, page, limit) ==
    /\ CacheHit(cache, term, now)
    /\ \E order \in RankedOrders(videos, NormalizedTerm(term)) :
           last' = Returned(term, page, limit, "cache", "none", Len(order),
                            Window(videos, order, limit, (page - 1) * limit),
                            CacheKey(term) \in stale)
    /\ UNCHANGED <<now, videos, video_tokens, pc, tok, res, redeemed, cache, stale>>
    /\ UNCHANGED statvars

\* get_videos_by_name(search_term, page, limit), the cache answering
SearchFromCache(term, page, limit) ==
    /\ CacheHit(cache, term, now)
    /\ LET entry     == cache[CacheKey(term)]
           start_idx == (page - 1) * limit
           end_idx   == start_idx + limit
       IN  last' = Returned(term, page, limit, "cache", "none", entry.total,
                            Slice(entry.items, start_idx + 1, end_idx),
                            CacheKey(term) \in stale)
    /\ UNCHANGED <<now, videos, video_tokens, pc, tok, res, redeemed, cache, stale>>
    /\ UNCHANGED statvars

\* a miss that stores whatever the query returned, an empty page included
SearchFromDbStoringEmpty(term, page, limit, fail) ==
    /\ ~CacheHit(cache, term, now)
    /\ \E order \in RankedOrders(videos, NormalizedTerm(term)) :
         LET results == Window(videos, order, limit, (page - 1) * limit)
         IN  IF fail = "connect"
             THEN /\ last' = RaisedSearch(term, page, limit, fail)
                  /\ UNCHANGED <<cache, stale>>
             ELSE IF fail \in {"query", "cache_put"}
             THEN /\ last' = Returned(term, page, limit, "db", fail, 0, <<>>, FALSE)
                  /\ UNCHANGED <<cache, stale>>
             ELSE /\ cache' = CachePut(cache, Strip(term), results, Len(order), now)
                  /\ stale' = stale \ {CacheKey(term)}
                  /\ last' = Returned(term, page, limit, "db", fail,
                                      IF results = <<>> THEN 0 ELSE Len(order),
                                      results, FALSE)
    /\ UNCHANGED <<now, videos, video_tokens, pc, tok, res, redeemed>>
    /\ UNCHANGED statvars

\* get_videos_by_name(search_term, page, limit), the cache missing: the
\* connection is opened before the try block; the query and the cache store
\* run inside it, and its handler returns (0, [])
SearchFromDb(term, page, limit, fail) ==
    /\ ~CacheHit(cache, term, now)
    /\ LET offset == (page - 1) * limit
           normalized_term == NormalizedTerm(term)
       IN  \E order \in RankedOrders(videos, normalized_term) :
             LET results == Window(videos, order, limit, offset)
                 total_count == Len(order)
             IN  IF fail = "connect"
                 THEN /\ last' = RaisedSearch(term, page, limit, fail)
                      /\ UNCHANGED <<cache, stale>>
                 ELSE IF fail = "query" \/ results = <<>>
                 THEN /\ last' = Returned(term, page, limit, "db", fail, 0, <<>>, FALSE)
                      /\ UNCHANGED <<cache, stale>>
                 ELSE IF fail = "cache_put"
                 THEN /\ last' = Returned(term, page, limit, "db", fail, 0, <<>>, FALSE)
                      /\ UNCHANGED <<cache, stale>>
                 ELSE /\ cache' = CachePut(cache, Strip(term), results, total_count, now)
                      /\ stale' = stale \ {CacheKey(term)}
                      /\ last' = Returned(term, page, limit, "db", fail,
                                          total_count, results, FALSE)
    /\ UNCHANGED <<now, videos, video_tokens, pc, tok, res, redeemed>>
    /\ UNCHANGED statvars

NextSearch ==
    \/ TickSearch
    \/ \E u \in Uploads, f \in Files : SaveVideo(u[1], u[2], f)
    \/ \E q \in Queries, p \in Pages, l \in Limits : SearchFromCache(q, p, l)
    \/ \E q \in Queries, p \in Pages, l \in Limits, x \in Failures : SearchFromDb(q, p, l, x)

SpecSearch == InitSearch /\ [][NextSearch]_vars

(***************************************************************************)
(* Cache service: the search service under queries that differ only in     *)
(* letter case and surrounding whitespace                                  *)
(***************************************************************************)
CacheQueries == {txt_q_A, <<"a">>}
CacheUploads == { <<txt_A, NoCaption>>, <<txt_a_b, NoCaption>> }
CacheFiles == {"f1", "f2"}

NextCache ==
    \/ TickSearch
    \/ \E u \in CacheUploads, f \in CacheFiles : SaveVideo(u[1], u[2], f)
    \/ \E q \in CacheQueries, p \in Pages, l \in Limits : SearchFromCache(q, p, l)
    \/ \E q \in CacheQueries, p \in Pages, l \in Limits, x \in Failures :
           SearchFromDb(q, p, l, x)

SpecCache == InitSearch /\ [][NextCache]_vars

(***************************************************************************)
(* Properties of the search service                                        *)
(***************************************************************************)
\* the rank the tier rules give: 100 name equals the query, 90 name starts
\* with it, 85 every query word is a substring of the name, 80 name contains
\* the query, 70 the query is a keyword, 60 a keyword contains it, else 0
TierRank(row, q) ==
    LET name  == Lower(row.video_name)
        words == SearchWords(q)
    IN  IF name = q THEN 100
        ELSE IF StartsWith(name, q) THEN 90
        ELSE IF \A k \in 1..Len(words) : Contains(name, words[k]) THEN 85
        ELSE IF Contains(name, q) THEN 80
        ELSE IF InSeq(q, row.keywords) THEN 70
        ELSE IF \E k \in 1..Len(row.keywords) : Contains(row.keywords[k], q) THEN 60
        ELSE 0

\* the latest operation was a call of get_videos_by_name that met no failure
\* and returned
SearchReturned == last.op = "search" /\ last.outcome = "returned" /\ ~last.failed

\* C5: for a fixed catalog and query, the window a call returns for (page,
\* size), from the database or from a cache entry stored under that catalog,
\* is the slice [(page-1)*size : page*size] of the full ranked set.
C5_PagesPartition ==
    (SearchReturned /\ ~last.stale)
    => \E order \in RankedOrders(videos, NormalizedTerm(last.term)) :
           last.items = Window(videos, order, last.limit, (last.page - 1) * last.limit)

\* C6: the items list of every cache entry is the full ranked match set of
\* its query at fetch time: its length equals the stored total count.
C6_CacheHoldsFullSet ==
    \A k \in DOMAIN cache : Len(cache[k].items) = cache[k].total

\* C7: every item the ranked query returns has non-zero rank under the tier
\* rules, and the items come by rank descending and, within equal rank, by
\* upload date descending.
C7_RankedOrder ==
    (SearchReturned /\ last.path = "db")
    => LET t == NormalizedTerm(last.term)
           rankOf(k) == TierRank(videos[last.items[k].id], t)
           dateOf(k) == last.items[k].upload_date
       IN  /\ \A k \in 1..Len(last.items) : rankOf(k) > 0
           /\ \A k, m \in 1..Len(last.items) :
                  k < m => \/ rankOf(k) > rankOf(m)
                           \/ rankOf(k) = rankOf(m) /\ dateOf(k) >= dateOf(m)

\* C8: the rank the query assigns to a catalog item is the highest tier whose
\* condition the item satisfies, and the candidates are exactly the items
\* with a non-zero tier.
C8_RankIsHighestTier ==
    \A q \in Queries, i \in 1..Len(videos) :
        LET t == NormalizedTerm(q)
        IN  /\ SqlRank(videos[i], t) = TierRank(videos[i], t)
            /\ (i \in MatchIds(videos, t)) <=> (TierRank(videos[i], t) > 0)

\* C9: the total count a call returns is the number of catalog items with
\* non-zero rank for the query, for every page and on both paths.
C9_TotalIsMatchCount ==
    SearchReturned
    => last.total = Cardinality(MatchIds(videos, NormalizedTerm(last.term)))

\* C10: get_videos_by_name never raises to its caller; a call that met a
\* failure returns (0, []).
C10_NeverRaises ==
    last.op = "search"
    => /\ last.outcome = "returned"
       /\ last.failed => (last.total = 0 /\ last.items = <<>>)

\* the step is a call of get_videos_by_name
SearchStep == last' # last /\ last'.op = "search"

PageOf(items, page, limit) ==
    LET start == (page - 1) * limit
        n     == IF Len(items) <= start THEN 0
                 ELSE IF Len(items) >= start + limit THEN limit
                 ELSE Len(items) - start
    IN  [k \in 1..n |-> items[start + k]]

\* C21: a call of get_videos_by_name that finds a live cache entry returns
\* the entry's total and the page slice of the entry's items, whatever the
\* catalog holds by then, and leaves the cache and the catalog unchanged.
C21_CacheHitFrame ==
    [][ LET k == CacheKey(last'.term)
        IN  (SearchStep /\ k \in DOMAIN cache /\ now < cache[k].expires)
            => /\ last'.path = "cache" /\ last'.outcome = "returned"
               /\ last'.total = cache[k].total
               /\ last'.items = PageOf(cache[k].items, last'.page, last'.limit)
               /\ cache' = cache
               /\ videos' = videos
      ]_vars

\* C21 witness: a call was answered from an entry cached before a catalog
\* write, with items that no ranking of the present catalog would give.
C21_Witness ==
    /\ SearchReturned /\ last.path = "cache" /\ last.stale
    /\ last.items # <<>>
    /\ \A order \in RankedOrders(videos, NormalizedTerm(last.term)) :
           last.items # Window(videos, order, last.limit, (last.page - 1) * last.limit)

\* the number of catalog items the query of a search term matches
MatchCount(term) == Cardinality(MatchIds(videos, NormalizedTerm(term)))

\* C35: apart from the expiry of entries as time passes, the cache changes
\* only in a get_videos_by_name call whose database query returned at least
\* one row; a call that reaches the database and
\* matches nothing, asks for a page past the last match, or fails in its
\* query returns (0, []) and leaves the cache as it was
C35_CacheWrittenOnlyWithRows ==
    [][ /\ (cache' # cache /\ now' = now)
           => /\ last'.op = "search" /\ last'.path = "db"
              /\ last'.outcome = "returned" /\ ~last'.failed
              /\ last'.items # <<>> /\ last'.total >= 1
        /\ ( /\ SearchStep /\ last'.path = "db" /\ last'.outcome = "returned"
             /\ \/ last'.failed
                \/ MatchCount(last'.term) = 0
                \/ (last'.page - 1) * last'.limit >= MatchCount(last'.term) )
           => /\ last'.total = 0 /\ last'.items = <<>>
              /\ cache' = cache
      ]_vars

\* C35 witness: a call missed the cache and asked the database for a page
\* past the last match of a term that has matches: it returned (0, []) and
\* the term has no cache entry
C35_Witness ==
    /\ SearchReturned /\ last.path = "db"
    /\ MatchCount(last.term) > 0
    /\ (last.page - 1) * last.limit >= MatchCount(last.term)
    /\ last.total = 0 /\ last.items = <<>>
    /\ CacheKey(last.term) \notin DOMAIN cache

\* C22: save_video_to_db for a file_id that exists overwrites video_name,
\* caption, keywords, access_hash and upload_date of its record, keeps the
\* id and adds no record; for a file_id that does not exist it adds exactly
\* one record; no step removes a record or changes another one.
C22_UpsertByFileId ==
    [][ /\ Len(videos') >= Len(videos)
        /\ \A i \in 1..Len(videos) :
               /\ videos'[i].id = videos[i].id
               /\ videos'[i].file_id = videos[i].file_id
        /\ videos' # videos
           => \E f \in {videos'[i].file_id : i \in 1..Len(videos')} :
                 /\ \A i \in 1..Len(videos) :
                        videos[i].file_id # f => videos'[i] = videos[i]
                 /\ \A i \in 1..Len(videos') :
                        videos'[i].file_id = f
                        => /\ videos'[i].keywords =
                                  KeywordsFor(videos'[i].video_name, videos'[i].caption)
                           /\ videos'[i].upload_date = now
                           /\ videos'[i].id = i
                 /\ IF FileExists(videos, f)
                    THEN Len(videos') = Len(videos)
                    ELSE /\ Len(videos') = Len(videos) + 1
                         /\ videos'[Len(videos')].file_id = f
      ]_vars

\* C22 witness: two records with ids 1 and 2 of different files, the first
\* overwritten by a later upload of its file: it carries the later date and
\* the name and keywords of that upload.
C22_Witness ==
    /\ Len(videos) = 2
    /\ videos[1].id = 1 /\ videos[2].id = 2
    /\ videos[1].file_id # videos[2].file_id
    /\ videos[1].upload_date > videos[2].upload_date
    /\ videos[1].video_name = txt_a_b
    /\ videos[1].keywords = extract_keywords(txt_a_b)

\* C28: the upload_date of a record is set when the record is created and
\* no later step changes it.
C28_UploadDateSetOnce ==
    [][ \A i \in 1..Len(videos) :
            i <= Len(videos') => videos'[i].upload_date = videos[i].upload_date
      ]_vars

(***************************************************************************)
(* Statistics service: track_search and the two background loops           *)
(* update_stats_periodically and schedule_daily_reset                      *)
(***************************************************************************)
MaxSearches == 2     \* rows ever inserted into searches
MaxDay == 1          \* last day the clock of the statistics service reaches

HoursPerDay == 24

\* CURRENT_DATE, DATE(search_time): the day a clock reading falls on
Date(t) == t \div HoursPerDay

\* the search_count of the row of (search_date, search_term); 0 without a row
CountOf(top, search_date, search_term) ==
    LET hit == {r \in top : r.search_date = search_date /\ r.search_term = search_term}
    IN  IF hit = {} THEN 0 ELSE (CHOOSE r \in hit : TRUE).search_count

\* the number of rows of searches with that term on that day
EventsOn(ss, search_date, search_term) ==
    Cardinality({i \in 1..Len(ss) : /\ Date(ss[i].search_time) = search_date
                                    /\ ss[i].search_term = search_term})

\* an upsert that inserts the row with count 1 but restarts an existing row at 1
RestartTopSearch(top, search_date, search_term) ==
    {r \in top : ~(r.search_date = search_date /\ r.search_term = search_term)}
        \cup {[search_date |-> search_date, search_term |-> search_term, search_count |-> 1]}

\* INSERT INTO top_searches ... ON CONFLICT (search_date, search_term)
\* DO UPDATE SET search_count = top_searches.search_count + 1
UpsertTopSearch(top, search_date, search_term) ==
    {r \in top : ~(r.search_date = search_date /\ r.search_term = search_term)}
        \cup {[search_date |-> search_date, search_term |-> search_term,
               search_count |-> CountOf(top, search_date, search_term) + 1]}

\* INSERT INTO searches (user_id, search_term); search_time defaults to the clock
InsertSearch(ss, user_id, search_term, t) ==
    Append(ss, [user_id |-> user_id, search_term |-> search_term, search_time |-> t])

\* where a call of track_search can meet a failure: opening the connection of
\* update_user_activity or its own (both before any try block), or a statement
\* inside its try block (a missing top_searches table is one)
TrackFailures == {"none", "activity_connect", "connect", "query"}

\* track_search raises on a failed connection, and logs and rolls back on a
\* failed statement
TrackOutcome(fail) ==
    IF fail = "none" THEN "tracked"
    ELSE IF fail = "query" THEN "swallowed" ELSE "raised"

\* the row the hourly statement computes: the day, the size of videos, the
\* number of searches of the day.  The three user counts and the premium count
\* are computed from tables outside this model.
StatsRow(stat_date, vs, ss, t) ==
    [stat_date |-> stat_date,
     searches_today |-> Cardinality({i \in 1..Len(ss) : Date(ss[i].search_time) = stat_date}),
     total_videos |-> Len(vs),
     updated_at |-> t]

\* INSERT INTO bot_stats ... ON CONFLICT (stat_date) DO UPDATE SET ...
UpsertStats(bs, row) ==
    IF \E i \in 1..Len(bs) : bs[i].stat_date = row.stat_date
    THEN [i \in 1..Len(bs) |-> IF bs[i].stat_date = row.stat_date THEN row ELSE bs[i]]
    ELSE Append(bs, row)

\* the row of INSERT INTO bot_stats (stat_date): every other column defaults
DefaultStatsRow(stat_date, t) ==
    [stat_date |-> stat_date, searches_today |-> 0, total_videos |-> 0, updated_at |-> t]

\* a reset that inserts the day's row without asking whether it exists
ResetStatsInsertAlways(bs, stat_date, t) ==
    LET inserted == Append(bs, DefaultStatsRow(stat_date, t))
    IN  [i \in 1..Len(inserted) |->
            IF inserted[i].stat_date = stat_date
            THEN [inserted[i] EXCEPT !.searches_today = 0] ELSE inserted[i]]

\* reset_daily_stats, its two statements on bot_stats: INSERT ... WHERE NOT
\* EXISTS, then UPDATE ... SET searches_today = 0 WHERE stat_date = CURRENT_DATE
ResetStats(bs, stat_date, t) ==
    LET inserted == IF \E i \in 1..Len(bs) : bs[i].stat_date = stat_date
                    THEN bs ELSE Append(bs, DefaultStatsRow(stat_date, t))
    IN  [i \in 1..Len(inserted) |->
            IF inserted[i].stat_date = stat_date
            THEN [inserted[i] EXCEPT !.searches_today = 0] ELSE inserted[i]]

\* DELETE FROM top_searches WHERE search_date < CURRENT_DATE
PurgeTopSearches(top, current_date) == {r \in top : r.search_date >= current_date}

\* where one iteration of a background loop can meet a failure
TaskFailures == {"none", "connect", "query"}

StatTerms == {txt_A, <<"a">>}

\* the observation of one iteration of a background loop; again tells that
\* the previous step was a completed iteration of the same loop
TaskRun(op, fail, outcome) ==
    [op |-> op, failed |-> (fail # "none"), outcome |-> outcome,
     again |-> (last.op = op /\ last.outcome = "done")]

\* the clock reaches the next midnight.  No statement of the service compares
\* clock readings of one day, so the hours in between are not stepped through.
Midnight ==
    /\ Date(now) < MaxDay
    /\ now' = (Date(now) + 1) * HoursPerDay
    /\ last' = NoOp
    /\ UNCHANGED <<videos, video_tokens, pc, tok, res, redeemed, cache, stale>>
    /\ UNCHANGED statvars

\* track_search(user_id, search_term): update_user_activity first, then one
\* transaction that inserts the event and upserts the leaderboard row
TrackSearch(user_id, search_term, fail) ==
    /\ Len(searches) < MaxSearches
    /\ IF fail = "none"
       THEN /\ searches' = InsertSearch(searches, user_id, search_term, now)
            /\ top_searches' = UpsertTopSearch(top_searches, Date(now), search_term)
       ELSE UNCHANGED <<searches, top_searches>>
    /\ last' = [op |-> "track", term |-> search_term, failed |-> (fail # "none"),
                outcome |-> TrackOutcome(fail)]
    /\ UNCHANGED <<now, videos, video_tokens, pc, tok, res, redeemed, cache, stale>>
    /\ UNCHANGED <<bot_stats, tasks>>

\* one iteration of update_stats_periodically: the connection is opened inside
\* the try block, and the finally block closes cur and conn, which no
\* iteration has bound when the first connection fails
UpdateStatsTick(fail) ==
    /\ tasks.hourly = "running"
    /\ IF fail = "connect"
       THEN /\ tasks' = [tasks EXCEPT !.hourly = IF tasks.bound THEN "running" ELSE "dead"]
            /\ last' = TaskRun("refresh", fail, IF tasks.bound THEN "logged" ELSE "dead")
            /\ UNCHANGED bot_stats
       ELSE IF fail = "query"
       THEN /\ tasks' = [tasks EXCEPT !.bound = TRUE]
            /\ last' = TaskRun("refresh", fail, "logged")
            /\ UNCHANGED bot_stats
       ELSE /\ tasks' = [tasks EXCEPT !.bound = TRUE]
            /\ bot_stats' = UpsertStats(bot_stats, StatsRow(Date(now), videos, searches, now))
            /\ last' = TaskRun("refresh", fail, "done")
    /\ UNCHANGED <<now, videos, video_tokens, pc, tok, res, redeemed, cache, stale>>
    /\ UNCHANGED <<searches, top_searches>>

\* one iteration of schedule_daily_reset: reset_daily_stats opens its
\* connection before its try block and the loop has no handler
ResetDailyTick(fail) ==
    /\ tasks.daily = "running"
    /\ IF fail = "connect"
       THEN /\ tasks' = [tasks EXCEPT !.daily = "dead"]
            /\ last' = TaskRun("reset", fail, "dead")
            /\ UNCHANGED <<bot_stats, top_searches>>
       ELSE IF fail = "query"
       THEN /\ last' = TaskRun("reset", fail, "logged")
            /\ UNCHANGED <<bot_stats, top_searches, tasks>>
       ELSE /\ bot_stats' = ResetStats(bot_stats, Date(now), now)
            /\ top_searches' = PurgeTopSearches(top_searches, Date(now))
            /\ last' = TaskRun("reset", fail, "done")
            /\ UNCHANGED tasks
    /\ UNCHANGED <<now, videos, video_tokens, pc, tok, res, redeemed, cache, stale>>
    /\ UNCHANGED searches

NextStats ==
    \/ Midnight
    \/ \E u \in Users, q \in StatTerms, x \in TrackFailures : TrackSearch(u, q, x)
    \/ \E x \in TaskFailures : UpdateStatsTick(x)
    \/ \E x \in TaskFailures : ResetDailyTick(x)

SpecStats == InitSearch /\ [][NextStats]_vars

(***************************************************************************)
(* Properties of the statistics service                                    *)
(***************************************************************************)
\* C23: a successful track_search appends one search event and adds one to
\* the leaderboard counter of (current day, term); whatever track_search, the
\* hourly refresh and the daily reset do in between, that counter never
\* decreases within a day and equals the number of events track_search
\* recorded for the term on that day
C23_LeaderboardCounts ==
    [][ /\ \A q \in StatTerms :
              /\ CountOf(top_searches', Date(now'), q) = EventsOn(searches', Date(now'), q)
              /\ Date(now') = Date(now)
                    => CountOf(top_searches', Date(now), q) >= CountOf(top_searches, Date(now), q)
        /\ (last' # last /\ last'.op = "track" /\ last'.outcome = "tracked")
              => /\ Len(searches') = Len(searches) + 1
                 /\ searches'[Len(searches')].search_term = last'.term
                 /\ CountOf(top_searches', Date(now), last'.term)
                      = CountOf(top_searches, Date(now), last'.term) + 1
        /\ (last' # last /\ last'.op = "track" /\ last'.outcome # "tracked")
              => UNCHANGED <<searches, top_searches>> ]_vars

\* two searches for one term were tracked on the second day, after a daily
\* reset and an hourly refresh of that day
C23_Witness ==
    /\ Date(now) = 1
    /\ \E q \in StatTerms : CountOf(top_searches, 1, q) = 2
    /\ \E i \in 1..Len(bot_stats) : bot_stats[i].stat_date = 1
    /\ last.op \in {"refresh", "reset"} /\ last.outcome = "done"

\* C24: a failure in one iteration of a background loop, the failure to open
\* the storage connection in the first iteration included, does not end the loop
C24_LoopsSurvive ==
    /\ tasks.hourly = "running"
    /\ tasks.daily = "running"

MaxCatalog == 2      \* rows of the catalogs the ranked query is given

txt_avengers_endgame_2019 ==
    <<"A", "v", "e", "n", "g", "e", "r", "s", " ", "E", "n", "d", "g", "a", "m", "e",
      " ", "2", "0", "1", "9">>
txt_avengers_2012 == <<"A", "v", "e", "n", "g", "e", "r", "s", " ", "2", "0", "1", "2">>
txt_avengers_2019 == <<"a", "v", "e", "n", "g", "e", "r", "s", " ", "2", "0", "1", "9">>
txt_x == <<"x">>
txt_a_b_c == <<"a", " ", "b", " ", "c">>
txt_a_wild == <<"a", " ", "_">>
txt_a_esc_b == <<"a", "\\", " ", "b">>
txt_xa_b == <<"x", "a", " ", "b">>
txt_blank == <<" ">>

\* the uploads the catalogs are made of: (video_name, caption)
RankUploads ==
    {<<n, NoCaption>> : n \in {txt_avengers_endgame_2019, txt_avengers_2012,
                              txt_a_b, txt_b_a, txt_x, txt_xa_b}}
        \cup {<<txt_x, CaptionOf(c)>> : c \in {txt_a_b, txt_a_b_c}}

RankQueries == {txt_avengers_2019, txt_a_b, txt_a_wild, txt_a_esc_b, txt_blank}

\* the catalogs n runs of save_video_to_db leave, each for a new file_id
RECURSIVE Catalogs(_)
Catalogs(n) ==
    IF n = 0 THEN {<<>>}
    ELSE {SavedVideos(rows, u[1], u[2], n, n, 0) : rows \in Catalogs(n - 1), u \in RankUploads}

InitRank ==
    /\ now = 0
    /\ videos \in Catalogs(MaxCatalog)
    /\ video_tokens = <<>>
    /\ pc = [p \in Clients |-> "idle"]
    /\ tok = [p \in Clients |-> NoToken]
    /\ res = [p \in Clients |-> NotFound("absent")]
    /\ redeemed = <<>>
    /\ cache = <<>>
    /\ stale = {}
    /\ last \in {[op |-> "query", term |-> q, order |-> <<>>, ranks |-> <<>>] :
                    q \in RankQueries}
    /\ InitStats

\* the ranked query of get_videos_by_name runs for the term: the ids of the
\* rows it returns, in the order it returns them, and the rank its CASE
\* expression gives every row of the catalog
RankQuery ==
    /\ last.op = "query"
    /\ \E order \in RankedOrders(videos, NormalizedTerm(last.term)) :
           last' = [op |-> "ranked", term |-> last.term, order |-> order,
                    ranks |-> [i \in 1..Len(videos) |->
                                  SqlRank(videos[i], NormalizedTerm(last.term))]]
    /\ UNCHANGED <<now, videos, video_tokens, pc, tok, res, redeemed, cache, stale>>
    /\ UNCHANGED statvars

NextRank == RankQuery

SpecRank == InitRank /\ [][NextRank]_vars

(***************************************************************************)
(* Properties of the ranking service                                       *)
(***************************************************************************)
\* the position of row i in the returned order; 0 when it is not returned
PositionOf(order, i) ==
    IF \E k \in 1..Len(order) : order[k] = i
    THEN CHOOSE k \in 1..Len(order) : order[k] = i
    ELSE 0

\* the name of the row contains every word of the query
NameHasAllWords(row, q) ==
    \A k \in 1..Len(SearchWords(q)) : Contains(Lower(row.video_name), SearchWords(q)[k])

\* some keyword of the row contains the query
KeywordHasQuery(row, q) ==
    \E k \in 1..Len(row.keywords) : Contains(row.keywords[k], q)

\* C27: for a query of several words, a row whose name contains every query
\* word is returned before every row that matches only through its keywords,
\* and a row whose name lacks a query word and that has no keyword containing
\* the query is not returned; for "avengers 2019" the row named "Avengers
\* Endgame 2019" is returned and a row named "Avengers 2012" is not returned
\* before it
C27_MultiWordRanking ==
    (last.op = "ranked" /\ Len(SearchWords(NormalizedTerm(last.term))) > 1)
    => LET q == NormalizedTerm(last.term)
           pos(i) == PositionOf(last.order, i)
       IN  /\ \A i, j \in 1..Len(videos) :
                  (/\ NameHasAllWords(videos[i], q)
                   /\ ~NameHasAllWords(videos[j], q)
                   /\ KeywordHasQuery(videos[j], q))
                  => /\ pos(i) > 0
                     /\ pos(j) > 0 => pos(i) < pos(j)
           /\ \A i \in 1..Len(videos) :
                  (~NameHasAllWords(videos[i], q) /\ ~KeywordHasQuery(videos[i], q))
                  => pos(i) = 0
           /\ \A i, j \in 1..Len(videos) :
                  (/\ last.term = txt_avengers_2019
                   /\ videos[i].video_name = txt_avengers_endgame_2019
                   /\ videos[j].video_name = txt_avengers_2012)
                  => /\ pos(i) > 0
                     /\ pos(j) > 0 => pos(i) < pos(j)

\* the term holds none of the characters LIKE gives a meaning to
PlainTerm(term) == ~InSeq("_", term) /\ ~InSeq("%", term) /\ ~InSeq("\\", term)

\* the same statement for the queries without the characters _, % and \
C27_WithoutWildcards ==
    (last.op = "ranked" /\ PlainTerm(last.term)) => C27_MultiWordRanking

C34_Rank80Unused ==
    last.op = "ranked"
    => LET q == NormalizedTerm(last.term)
       IN  \A i \in 1..Len(videos) :
               /\ (SearchWords(q) # <<>> /\ PlainTerm(q)) => last.ranks[i] # 80
               /\ q = <<>> => /\ PositionOf(last.order, i) > 0
                              /\ last.ranks[i] = IF videos[i].video_name = <<>> THEN 100 ELSE 90

(***************************************************************************)
(* Handlers: handle_video, handle_document, handle_text_search and         *)
(* display_search_results                                                  *)
(***************************************************************************)
per_page == 10       \* display_search_results
DefaultLimit == 10   \* get_videos_by_name(search_term, page=1, limit=10)

\* what one call of get_videos_by_name(search_term, page, limit) returns and
\* the cache it leaves, under the cache c, the catalog vs and the clock at
GetVideosByName(c, st, vs, at, search_term, page, limit, fail, order) ==
    LET start_idx == (page - 1) * limit
        results   == Window(vs, order, limit, start_idx)
    IN  IF CacheHit(c, search_term, at)
        THEN [outcome |-> "returned", total |-> c[CacheKey(search_term)].total,
              items |-> Slice(c[CacheKey(search_term)].items, start_idx + 1, start_idx + limit),
              cache |-> c, stale |-> st]
        ELSE IF fail = "connect"
        THEN [outcome |-> "raised", total |-> 0, items |-> <<>>, cache |-> c, stale |-> st]
        ELSE IF fail \in {"query", "cache_put"} \/ results = <<>>
        THEN [outcome |-> "returned", total |-> 0, items |-> <<>>, cache |-> c, stale |-> st]
        ELSE [outcome |-> "returned", total |-> Len(order), items |-> results,
              cache |-> CachePut(c, Strip(search_term), results, Len(order), at),
              stale |-> st \ {CacheKey(search_term)}]

\* the names display_search_results unpacks every item into
DisplayFields == <<"video_id", "video_name", "caption", "file_id", "upload_date", "is_document">>

\* the unpacking succeeds when the item has as many values as there are names
Unpacks(item) == Cardinality(DOMAIN item) = Len(DisplayFields)

\* sha256(f"{video_id}:{user_id}:{datetime.now()}")[:32]: a value determined by
\* the three parts
TokenFor(video_id, user_id, at) == <<video_id, user_id, at>>

\* the loop of display_search_results over unpacked items: one save_token per
\* item; an item whose save_token fails gets no button
RECURSIVE IssueTokens(_, _, _, _, _)
IssueTokens(vt, items, user_id, at, fail) ==
    IF items = <<>> \/ fail = "save_token" THEN vt
    ELSE IssueTokens(InsertToken(vt, TokenFor(Head(items).id, user_id, at),
                                 Head(items).id, user_id, at),
                     Tail(items), user_id, at, fail)

\* where display_search_results can meet a failure
DisplayFailures == Failures \cup {"save_token"}

\* display_search_results(message, search_query, page): the search, the reply
\* NOT_FOUND for no items, else the loop that unpacks each item and saves its
\* token; the unpacking is outside the loop's try block
Display(c, st, vs, vt, at, user_id, search_query, page, fail, order) ==
    LET got == GetVideosByName(c, st, vs, at, search_query, page, per_page, fail, order)
        outcome == IF got.outcome = "raised" THEN "raised"
                   ELSE IF got.items = <<>> THEN "not_found"
                   ELSE IF ~Unpacks(got.items[1]) THEN "raised"
                   ELSE "displayed"
        issued == IF outcome = "displayed"
                  THEN IssueTokens(vt, got.items, user_id, at, fail) ELSE vt
    IN  [outcome |-> outcome, items |-> got.items, cache |-> got.cache,
         stale |-> got.stale, video_tokens |-> issued,
         tokens |-> Len(issued) - Len(vt)]

HandlerUploads == { <<txt_A, NoCaption>> }
HandlerQueries == {txt_q_A, txt_x}

\* handle_video: the upload is saved with the current time as upload_date
HandleVideo(video_name, caption, file_id) ==
    /\ videos' = SavedVideos(videos, video_name, caption, file_id, file_id, now)
    /\ stale' = DOMAIN cache
    /\ last' = [op |-> "video", file_id |-> file_id, outcome |-> "saved"]
    /\ UNCHANGED <<now, video_tokens, pc, tok, res, redeemed, cache>>
    /\ UNCHANGED statvars

\* handle_document: save_video_to_db is called with the keyword argument
\* is_document, which it does not take: the call raises before it runs
HandleDocument(video_name, caption, file_id) ==
    /\ last' = [op |-> "document", file_id |-> file_id, outcome |-> "raised"]
    /\ UNCHANGED <<now, videos, video_tokens, pc, tok, res, redeemed, cache, stale>>
    /\ UNCHANGED statvars

\* display_search_results as start_command and handle_pagination call it
DisplayResults(user_id, search_query, page, fail) ==
    /\ Len(video_tokens) < MaxTokenRows
    /\ \E order \in RankedOrders(videos, NormalizedTerm(search_query)) :
         LET shown == Display(cache, stale, videos, video_tokens, now, user_id,
                              search_query, page, fail, order)
         IN  /\ cache' = shown.cache
             /\ stale' = shown.stale
             /\ video_tokens' = shown.video_tokens
             /\ redeemed' = redeemed \o [k \in 1..shown.tokens |-> 0]
             /\ last' = [op |-> "display", term |-> search_query, page |-> page,
                         failed |-> (fail # "none"), outcome |-> shown.outcome,
                         items |-> shown.items, tokens |-> shown.tokens]
    /\ UNCHANGED <<now, videos, pc, tok, res>>
    /\ UNCHANGED statvars

\* the reply of handle_text_search's handler: the search did not run
ErrorReply(search_query, statfail) ==
    [op |-> "text_search", term |-> search_query, stats |-> statfail,
     searched |-> FALSE, outcome |-> "error_reply", items |-> <<>>, tokens |-> 0]

\* handle_text_search: inside one try block track_search, the cache lookup,
\* on a miss the search of page 1 and the store of its items, then
\* display_search_results; its handler replies with an error message.
\* add_or_update_user writes a table outside this model.
HandleTextSearch(user_id, text, statfail, fail) ==
    LET search_query == Strip(text)
        hit == CacheHit(cache, search_query, now)
    IN
    /\ Len(searches) < MaxSearches
    /\ Len(video_tokens) < MaxTokenRows
    /\ IF TrackOutcome(statfail) = "raised"
       THEN /\ last' = ErrorReply(search_query, statfail)
            /\ UNCHANGED <<searches, top_searches, cache, stale, video_tokens, redeemed>>
       ELSE
         /\ IF statfail = "none"
            THEN /\ searches' = InsertSearch(searches, user_id, search_query, now)
                 /\ top_searches' = UpsertTopSearch(top_searches, Date(now), search_query)
            ELSE UNCHANGED <<searches, top_searches>>
         /\ \E o1, o2 \in RankedOrders(videos, NormalizedTerm(search_query)) :
              LET got == IF hit
                         THEN [outcome |-> "returned",
                               total |-> cache[CacheKey(search_query)].total,
                               items |-> cache[CacheKey(search_query)].items,
                               cache |-> cache, stale |-> stale]
                         ELSE GetVideosByName(cache, stale, videos, now, search_query,
                                              1, DefaultLimit, fail, o1)
                   stored == ~hit /\ got.items # <<>>
                   c1 == IF stored
                         THEN CachePut(got.cache, search_query, got.items, got.total, now)
                         ELSE got.cache
                   shown == Display(c1, got.stale, videos, video_tokens, now, user_id,
                                    search_query, 1, fail, o2)
              IN  IF got.outcome = "raised"
                  THEN /\ last' = [ErrorReply(search_query, statfail) EXCEPT !.searched = TRUE]
                       /\ UNCHANGED <<cache, stale, video_tokens, redeemed>>
                  ELSE /\ cache' = shown.cache
                       /\ stale' = shown.stale
                       /\ video_tokens' = shown.video_tokens
                       /\ redeemed' = redeemed \o [k \in 1..shown.tokens |-> 0]
                       /\ last' = [op |-> "text_search", term |-> search_query,
                                   stats |-> statfail, searched |-> TRUE,
                                   outcome |-> IF shown.outcome = "raised"
                                               THEN "error_reply" ELSE shown.outcome,
                                   items |-> shown.items, tokens |-> shown.tokens]
    /\ UNCHANGED <<now, videos, pc, tok, res>>
    /\ UNCHANGED <<bot_stats, tasks>>

NextHandlers ==
    \/ TickSearch
    \/ \E u \in HandlerUploads, f \in CacheFiles : HandleVideo(u[1], u[2], f)
    \/ \E u \in HandlerUploads, f \in CacheFiles : HandleDocument(u[1], u[2], f)
    \/ \E u \in Users, q \in HandlerQueries, p \in Pages, x \in DisplayFailures :
           DisplayResults(u, q, p, x)
    \/ \E u \in Users, q \in HandlerQueries, s \in TrackFailures, x \in DisplayFailures :
           HandleTextSearch(u, q, s, x)

SpecHandlers == InitSearch /\ [][NextHandlers]_vars

(***************************************************************************)
(* Properties of the handlers                                              *)
(***************************************************************************)
\* C25: a failure of the statistics path (a connection that track_search or
\* update_user_activity cannot open, a statement of track_search that fails)
\* does not keep handle_text_search from running the search
C25_StatsNeverBlockSearch ==
    (last.op = "text_search" /\ last.stats # "none") => last.searched

\* C29: every item get_videos_by_name returns to display_search_results has
\* the six values the display unpacks, and displaying a page with items ends
\* without raising and with one saved token for every item
C29_ItemsHaveSixFields ==
    (last.op = "display" /\ ~last.failed /\ last.items # <<>>)
    => /\ \A k \in 1..Len(last.items) : Unpacks(last.items[k])
       /\ last.outcome = "displayed"
       /\ last.tokens = Len(last.items)

\* C30: after handle_document the catalog holds a row of the file with
\* is_document true, and after handle_video a row of the file with
\* is_document false
C30_DocumentFlag ==
    /\ last.op = "document"
          => \E i \in 1..Len(videos) :
                 videos[i].file_id = last.file_id /\ videos[i].is_document
    /\ last.op = "video"
          => \E i \in 1..Len(videos) :
                 videos[i].file_id = last.file_id /\ ~videos[i].is_document

(***************************************************************************)
(* Catalog service: save_video_to_db statement by statement, as calls of   *)
(* several workers run it                                                  *)
(***************************************************************************)
MaxVideoRows == 2    \* rows of videos at which no further save starts

\* the uploads offered: (video_name, caption); the first has a caption that
\* shares words with its name
CatalogUploads == { <<txt_a_b, CaptionOf(txt_b_a)>>, <<txt_A, NoCaption>> }

\* a worker is between the SELECT and the write of a save
Saving(p) == pc[p] = "checked"

\* save_video_to_db, the keywords and the SELECT id FROM videos WHERE
\* file_id = %s: the worker learns whether a row of the file exists
SaveSelect(p, video_name, caption, file_id) ==
    /\ pc[p] = "idle"
    /\ Len(videos) < MaxVideoRows
    /\ pc' = [pc EXCEPT ![p] = "checked"]
    /\ tok' = [tok EXCEPT ![p] = [video_name |-> video_name, caption |-> caption,
                                  file_id |-> file_id, upload_date |-> now]]
    /\ res' = [res EXCEPT ![p] = [kind |-> IF FileExists(videos, file_id)
                                           THEN "existing" ELSE "none",
                                  why |-> "select", row |-> 0, video |-> 0]]
    /\ UNCHANGED <<now, videos, video_tokens, redeemed, cache, stale, last>>
    /\ UNCHANGED statvars

\* save_video_to_db, the UPDATE or the INSERT the SELECT decided on, and the
\* commit
SaveWrite(p) ==
    /\ Saving(p)
    /\ videos' = IF res[p].kind = "existing"
                 THEN UpdateVideo(videos, tok[p].video_name, tok[p].caption,
                                  tok[p].file_id, tok[p].file_id, tok[p].upload_date)
                 ELSE InsertVideo(videos, tok[p].video_name, tok[p].caption,
                                  tok[p].file_id, tok[p].file_id, tok[p].upload_date)
    /\ pc' = [pc EXCEPT ![p] = "idle"]
    /\ last' = [op |-> "save", file_id |-> tok[p].file_id,
                branch |-> IF res[p].kind = "existing" THEN "update" ELSE "insert"]
    /\ UNCHANGED <<now, video_tokens, tok, res, redeemed, cache, stale>>
    /\ UNCHANGED statvars

NextCatalog ==
    \/ \E p \in Clients, u \in CatalogUploads, f \in CacheFiles : SaveSelect(p, u[1], u[2], f)
    \/ \E p \in Clients : SaveWrite(p)

SpecCatalog == InitSearch /\ [][NextCatalog]_vars

(***************************************************************************)
(* Properties of the catalog service                                       *)
(***************************************************************************)
\* the positions of s whose element does not occur earlier in s
FirstPositions(s) == {i \in 1..Len(s) : \A j \in 1..(i - 1) : s[j] # s[i]}

\* the elements of s at their first occurrence, in the order of s
FirstOccurrences(s) ==
    [k \in 1..Cardinality(FirstPositions(s)) |->
        s[CHOOSE i \in FirstPositions(s) :
              Cardinality({j \in FirstPositions(s) : j <= i}) = k]]

\* the keywords extracted from a caption; none without a caption
CaptionKeywords(caption) ==
    IF caption.isNone \/ caption.text = <<>> THEN <<>> ELSE extract_keywords(caption.text)

\* C31: the keywords stored with a catalog row are the keywords extracted
\* from its caption followed by those extracted from its name, each kept at
\* its first occurrence only; no keyword is stored twice
C31_KeywordsDeduplicated ==
    \A i \in 1..Len(videos) :
        /\ videos[i].keywords
             = FirstOccurrences(CaptionKeywords(videos[i].caption)
                                \o extract_keywords(videos[i].video_name))
        /\ \A k, m \in 1..Len(videos[i].keywords) :
               videos[i].keywords[k] = videos[i].keywords[m] => k = m

\* a row was saved whose caption and name share a keyword
C31_Witness ==
    /\ last.op = "save"
    /\ \E i \in 1..Len(videos) :
           /\ videos[i].file_id = last.file_id
           /\ \E k \in 1..Len(CaptionKeywords(videos[i].caption)) :
                  InSeq(CaptionKeywords(videos[i].caption)[k],
                        extract_keywords(videos[i].video_name))

\* C38: however the statements of save_video_to_db calls for one file_id
\* interleave, the catalog holds one row for that file_id
C38_OneRowPerFile ==
    \A i, j \in 1..Len(videos) : videos[i].file_id = videos[j].file_id => i = j


\* ---------------------------------------------------------------------
\* Delivery: handle_video_selection, and the token branch of start_command,
\* which make the same two calls: get_video_by_token, then bot.send_video
\* ---------------------------------------------------------------------

\* whether is_premium(user_id) holds for the selecting user
Premium == BOOLEAN

\* the handler up to the SELECT of get_video_by_token: a user who is not
\* premium is ignored; without a row the user is answered "Video not found or
\* expired"; an error of the call is caught by the handler's outer try
SelectionSelect(p, token, premium) ==
    /\ pc[p] \in {"idle", "done"}
    /\ IF ~premium
       THEN /\ last' = [op |-> "selection", token |-> token, outcome |-> "ignored"]
            /\ pc' = [pc EXCEPT ![p] = "done"]
            /\ UNCHANGED <<tok, res>>
       ELSE LET r == SelectVideoByToken(videos, video_tokens, token, now)
            IN  /\ res' = [res EXCEPT ![p] = r]
                /\ tok' = [tok EXCEPT ![p] = token]
                /\ pc' = [pc EXCEPT ![p] = IF r.kind = "video" THEN "selected" ELSE "done"]
                /\ last' = [op |-> "selection", token |-> token,
                            outcome |-> IF r.kind = "video" THEN "found"
                                        ELSE IF r.kind = "none" THEN "not_found"
                                        ELSE "raised"]
    /\ UNCHANGED <<now, videos, video_tokens, redeemed, cache, stale>>
    /\ UNCHANGED statvars

\* the UPDATE and commit of get_video_by_token, which returns the video to
\* the handler
SelectionMark(p) ==
    /\ pc[p] = "selected"
    /\ video_tokens' = MarkUsed(video_tokens, tok[p])
    /\ redeemed' = [redeemed EXCEPT ![res[p].row] = @ + 1]
    /\ pc' = [pc EXCEPT ![p] = "sending"]
    /\ UNCHANGED <<now, videos, tok, res, cache, stale, last>>
    /\ UNCHANGED statvars

\* bot.send_video inside the handler's inner try: it delivers or raises, and
\* a raise is logged and answered; neither outcome writes to the database
SendVideo(p, delivered) ==
    /\ pc[p] = "sending"
    /\ pc' = [pc EXCEPT ![p] = "done"]
    /\ last' = [op |-> "send", token |-> tok[p], row |-> res[p].row,
                outcome |-> IF delivered THEN "sent" ELSE "send_failed"]
    /\ UNCHANGED <<now, videos, video_tokens, tok, res, redeemed, cache, stale>>
    /\ UNCHANGED statvars

NextDelivery ==
    \/ Tick
    \/ \E v \in 1..(Len(videos) + 1), u \in Users, t \in TokenValues : SaveToken(v, u, t)
    \/ \E p \in Clients, t \in TokenValues, m \in Premium : SelectionSelect(p, t, m)
    \/ \E p \in Clients : SelectionMark(p)
    \/ \E p \in Clients, d \in BOOLEAN : SendVideo(p, d)

SpecDelivery == InitToken /\ [][NextDelivery]_vars

\* C33: a selection that found its item mints one token row, and token rows
\* are added by the steps of a selection only
C33_MintedBySelection ==
    [][ /\ (\E p \in Clients : pc[p] = "selected" /\ pc'[p] = "sending")
           => Len(video_tokens') = Len(video_tokens) + 1
        /\ Len(video_tokens') > Len(video_tokens)
           => \E p \in Clients : pc'[p] # pc[p] ]_vars

\* the step is a bot.send_video of client p
SendStep(p) == pc[p] = "sending" /\ pc'[p] = "done"

\* the step is a selection by client p that reaches get_video_by_token
RetryStep(p) == pc[p] \in {"idle", "done"} /\ last'.op = "selection" /\ tok'[p] = last'.token
                /\ last'.outcome # "ignored" /\ res'[p] = SelectVideoByToken(videos, video_tokens, tok'[p], now)

\* C36: when bot.send_video is attempted the token is already used, a token
\* value whose delivery was attempted is not found by any later call, and no
\* token row gets more than one delivery attempt
C36_OneDeliveryAttempt ==
    [][ \A p \in Clients :
          /\ SendStep(p)
             => /\ video_tokens[res[p].row].used
                /\ redeemed[res[p].row] <= 1
          /\ (RetryStep(p) /\ \E i \in 1..Len(video_tokens) :
                                 video_tokens[i].token = tok'[p] /\ redeemed[i] > 0)
             => res'[p].kind = "none" ]_vars

====
